---- MODULE Spec2Model ----
(***************************************************************************)
(* Model of the extraction step of the content-processing pipeline:        *)
(* ExtractHandler.execute (libs/pipeline/handlers/extract_handler.py).     *)
(* Each run (one queue message / MessageContext) walks through the calls   *)
(* of execute in program order.  The analysis service, the schema catalog  *)
(* and the blob store are collaborators whose calls either return or       *)
(* raise; their outcomes are chosen nondeterministically.                  *)
(***************************************************************************)
EXTENDS Integers, Sequences, FiniteSets, TLC

\* ------------------------------------------------------------------ bounds
\* Number of queue messages (runs) the hosts take in over a behaviour.
NumRuns == 2

\* Event loops (worker hosts); each runs one `async def execute` coroutine at a
\* time and may have further ones scheduled behind it.
Hosts == {"hostA", "hostB"}
SchemaIds == {"inv-2025", "po-2025"}
SourceLists == {<<>>, <<"doc1.pdf", "doc2.pdf">>}
None == "None"

\* ------------------------------------------------------------- data values
HandlerName == "extract"
OutputFileName == "content_understanding_output.json"
ExtractedContent == "ExtractedContent"
LogMessage == "Content Understanding Extraction Result has been added"

\* An artifact and a step result left by an earlier step of the same run.
PriorArtifact ==
    [name |-> "intake_manifest.json", artifact_type |-> "SourceContent",
     log_entries |-> <<[source |-> "intake", message |-> "saved"]>>]
PriorStepResult(p) ==
    [process_id |-> p, step_name |-> "intake",
     result |-> [result |-> "success", file_name |-> "intake_manifest.json"]]
PriorFiles == <<PriorArtifact>>
PriorStepResults(p) == <<PriorStepResult(p)>>

\* The state below is indexed by host: the context of the run whose execute the
\* host's loop is running, or ran last.
VARIABLES
    pc,              \* pc[h]: position of the run inside execute
    dispatched,      \* number of messages taken off the queue so far
    scheduled,       \* scheduled[h]: coroutines scheduled on loop h, not yet started
    process_id,      \* context.data_pipeline.pipeline_status.process_id
    schema_id,       \* context.data_pipeline.pipeline_status.schema_id
    source_files,    \* context.data_pipeline.get_source_files()
    files,           \* context.data_pipeline.files
    step_results,    \* context.data_pipeline.step_results
    result_file,     \* index in files of the local variable result_file (0: unset)
    check_exc,       \* what get_analyzer_detail_by_id raised ("ok": returned)
    poll_status,     \* terminal state of the analysis job that poll_result saw
    calls,           \* the collaborator calls execute has made, in order
    error,           \* the exception that left execute (None: none)
    returned,        \* the StepResult execute returned (None: none)
    blobs,           \* artifact store: blob names uploaded under the run's process path
    analyzers,       \* analysis service: ids of the profiles that exist (ready)
    provisioned,     \* ids for which a begin_create_analyzer of this step succeeded
    files_before,    \* history: files when execute was entered
    results_before,  \* history: step_results when execute was entered
    ready_at_start,  \* history: schema_id was in provisioned when execute was entered
    sources_before,  \* history: source_files when execute was entered
    failed_call,     \* the collaborator call of this execution that raised (None: none)
    open_streams,    \* streams the execution has acquired and not yet released
    app_pc,          \* Application.run: position
    app_steps,       \* Application.run: configuration.app_process_steps
    app_index,       \* Application.run: index of the step being set up
    app_loaded,      \* Application.run: handler types loaded, in order
    app_handlers,    \* Application.run: handlers instantiated, <<context, step_name>>
    app_test_mode,   \* Application.run: the test_mode argument
    app_config,      \* appsettings.app_config: NoConfig or the cached instance
    cfg_pc,          \* get_app_config: position of each caller
    cfg_calls,       \* get_app_config: calls started
    cfg_instances,   \* the AppConfiguration instances constructed, in order
    cfg_logging,     \* times logging was configured (basicConfig or disable)
    cfg_failed,      \* calls that raised
    cfg_returned,    \* the instances calls have returned
    cfg_overlap      \* history: two calls were under way at the same time

vars == <<pc, dispatched, scheduled, process_id, schema_id, source_files, files,
          step_results, result_file, check_exc, poll_status, calls, error, returned, blobs,
          analyzers, provisioned, files_before, results_before, ready_at_start,
          sources_before, failed_call, open_streams,
          app_pc, app_steps, app_index, app_loaded, app_handlers, app_test_mode,
          app_config, cfg_pc, cfg_calls, cfg_instances, cfg_logging, cfg_failed,
          cfg_returned, cfg_overlap>>

\* The state of Application.run, which no step of a run touches.
appVars == <<app_pc, app_steps, app_index, app_loaded, app_handlers, app_test_mode>>

\* The state of appsettings.get_app_config, which neither a run nor
\* Application.run touches.
cfgVars == <<app_config, cfg_pc, cfg_calls, cfg_instances, cfg_logging, cfg_failed,
             cfg_returned, cfg_overlap>>

\* What no call of execute changes.
ctxVars == <<dispatched, scheduled, process_id, schema_id, source_files,
             files_before, results_before, ready_at_start, sources_before, appVars, cfgVars>>

\* ------------------------------------------------------------ pure helpers
\* The number of calls of a trace that name operation op.
RECURSIVE CountOp(_, _)
CountOp(s, op) ==
    IF s = <<>> THEN 0
    ELSE (IF Head(s)[1] = op THEN 1 ELSE 0) + CountOp(Tail(s), op)

Ops(s) == {s[i][1] : i \in 1..Len(s)}

IsPrefix(s, t) == Len(s) <= Len(t) /\ \A i \in 1..Len(s) : s[i] = t[i]

\* Outcomes of the existence check, by the state of the analysis service.
HTTPErrors == {"HTTPError404", "HTTPError500"}
DetailOutcomes(id) ==
    IF id \in analyzers THEN {"ok", "HTTPError500", "ConnectionError"}
    ELSE {"HTTPError404", "HTTPError500", "ConnectionError"}

\* except requests.exceptions.HTTPError: every HTTP error status is caught.
CaughtByExcept(exc) == exc \in HTTPErrors

\* Mutant: the except branch goes straight to the create-analyzer call.
AfterExistenceCheckCreateOnly(exc) ==
    IF exc = "ok" THEN "download_stream"
    ELSE IF CaughtByExcept(exc) THEN "create_analyzer"
    ELSE "raised"

\* Mutant: the provisioning code runs after the try block instead of inside except.
AfterExistenceCheckAlwaysProvision(exc) ==
    IF exc = "ok" \/ CaughtByExcept(exc) THEN "get_schema" ELSE "raised"

\* Where execute continues after the try/except around the existence check.
AfterExistenceCheck(exc) ==
    IF exc = "ok" THEN "download_stream"
    ELSE IF CaughtByExcept(exc) THEN "get_schema"
    ELSE "raised"

\* Mutant: the template is built but the create-analyzer call is left out.
AfterBuildSchemaSkipsCreate(ok) == IF ok THEN "download_stream" ELSE "raised"

\* Where execute continues after build_content_understanding_schema.
AfterBuildSchema(ok) == IF ok THEN "create_analyzer" ELSE "raised"

\* Mutant: a failed create-analyzer call is tried again.
AfterCreateAnalyzerRetries(ok) == IF ok THEN "download_stream" ELSE "create_analyzer"

\* Where execute continues after begin_create_analyzer.
AfterCreateAnalyzer(ok) == IF ok THEN "download_stream" ELSE "raised"

\* download_stream: a read stream on the source blob is acquired when it returns.
StreamsAfterDownload(s, ok) == IF ok THEN s \cup {"download"} ELSE s

\* Mutant: the read stream stays open when the submission raises.
StreamsAfterSubmitLeaksOnError(s, ok) == IF ok THEN s \ {"download"} ELSE s

\* The read stream is scoped to the begin_analyze_stream call it is the argument
\* of: it is released when that call returns or raises.
StreamsAfterSubmit(s, ok) == s \ {"download"}

\* Mutant: a per-schema lock held from the existence check to the end of
\* provisioning.
MayCheckLocked(h) ==
    /\ pc[h] = "check"
    /\ \A g \in Hosts \ {h} :
         ~(/\ schema_id[g] = schema_id[h]
           /\ pc[g] \in {"get_schema", "load_schema", "build_schema", "create_analyzer"})

\* The existence check is issued as soon as execute reaches it: no lock is taken.
MayCheck(h) == pc[h] = "check"

\* Mutant: the terminal failure of the job is not raised.
AfterPollIgnoresFailure(outcome) == "parse"

\* Where execute continues after poll_result.
AfterPoll(outcome) == IF outcome = "succeeded" THEN "parse" ELSE "raised"

\* context.data_pipeline.add_file: a new artifact appended to files.
NewArtifact(name, type) == [name |-> name, artifact_type |-> type, log_entries |-> <<>>]
add_file(fs, name, type) == Append(fs, NewArtifact(name, type))

\* Mutant: the log entry goes to the first artifact of the run.
LogTargetFirst(h) == 1

\* result_file.log_entries.append(entry): the artifact result_file names gets it.
LogTarget(h) == result_file[h]

\* Mutant: the entry is appended to every artifact of the run.
AppendLogAll(fs, i, entry) ==
    [k \in DOMAIN fs |-> [fs[k] EXCEPT !.log_entries = Append(@, entry)]]

\* Mutant: the entry is appended twice.
AppendLogTwice(fs, i, entry) ==
    [fs EXCEPT ![i].log_entries = Append(Append(@, entry), entry)]

AppendLog(fs, i, entry) ==
    [fs EXCEPT ![i].log_entries = Append(@, entry)]

\* Mutant: the result carries a process id of its own, not the context's.
StepResultOwnId(p, name) ==
    [process_id |-> 0, step_name |-> HandlerName,
     result |-> [result |-> "success", file_name |-> name]]

\* Mutant: the payload names the first artifact of the run.
StepResultFirstFile(p, name) ==
    [process_id |-> p, step_name |-> HandlerName,
     result |-> [result |-> "success", file_name |-> PriorArtifact.name]]

StepResult(p, name) ==
    [process_id |-> p, step_name |-> HandlerName,
     result |-> [result |-> "success", file_name |-> name]]

Finished(h) == pc[h] \in {"returned", "raised"}

\* configuration.app_process_steps: the steps of a run, in configured order.
ProcessSteps == <<"extract", "transform">>

\* context.data_pipeline.get_previous_step_result(step_name): the recorded results
\* of that name; the empty set stands for absent.
get_previous_step_result(results, name) ==
    {results[i] : i \in {j \in DOMAIN results : results[j].step_name = name}}

\* Mutant: the driver hands the context on as soon as execute has returned.
MayStartNextUnrecorded(h) == pc[h] \in {"returned", "recorded"}

\* The driver hands the context to the next configured step once the result of
\* the step before it is in step_results.
MayStartNext(h) == pc[h] = "recorded"

\* The event loop is free for the next run's coroutine.
Free(h) == pc[h] = "idle" \/ Finished(h) \/ pc[h] \in {"recorded", "next_step"}

\* --------------------------------------------------------------------- Init
InitPipeline ==
    /\ pc = [h \in Hosts |-> "idle"]
    /\ dispatched = 0
    /\ scheduled = [h \in Hosts |-> 0]
    /\ process_id = [h \in Hosts |-> 0]
    /\ schema_id = [h \in Hosts |-> None]
    /\ source_files = [h \in Hosts |-> <<>>]
    /\ files = [h \in Hosts |-> <<>>]
    /\ step_results = [h \in Hosts |-> <<>>]
    /\ result_file = [h \in Hosts |-> 0]
    /\ check_exc = [h \in Hosts |-> None]
    /\ poll_status = [h \in Hosts |-> None]
    /\ calls = [h \in Hosts |-> <<>>]
    /\ error = [h \in Hosts |-> None]
    /\ returned = [h \in Hosts |-> None]
    /\ blobs = [h \in Hosts |-> {}]
    /\ analyzers = {"po-2025"}
    /\ provisioned = {}
    /\ files_before = [h \in Hosts |-> <<>>]
    /\ results_before = [h \in Hosts |-> <<>>]
    /\ ready_at_start = [h \in Hosts |-> FALSE]
    /\ sources_before = [h \in Hosts |-> <<>>]
    /\ failed_call = [h \in Hosts |-> None]
    /\ open_streams = [h \in Hosts |-> {}]

\* Application.run has not been called.
InitAppOff ==
    /\ app_pc = "off"
    /\ app_steps = <<>>
    /\ app_index = 0
    /\ app_loaded = <<>>
    /\ app_handlers = <<>>
    /\ app_test_mode = FALSE

\* The threads that call get_app_config.
Callers == {"t1", "t2"}

\* app_config: AppConfiguration | None = None
NoConfig == 0

\* appsettings has been imported and get_app_config was not called yet.
InitConfig ==
    /\ app_config = NoConfig
    /\ cfg_pc = [t \in Callers |-> "idle"]
    /\ cfg_calls = 0
    /\ cfg_instances = <<>>
    /\ cfg_logging = 0
    /\ cfg_failed = 0
    /\ cfg_returned = {}
    /\ cfg_overlap = FALSE

Init == InitPipeline /\ InitAppOff /\ InitConfig

\* ------------------------------------------------------------------ actions
\* The exception e leaves execute: the coroutine ends.
Raise(h, e) ==
    /\ pc' = [pc EXCEPT ![h] = "raised"]
    /\ error' = [error EXCEPT ![h] = e]

Goto(h, l) ==
    /\ pc' = [pc EXCEPT ![h] = l]
    /\ UNCHANGED error

Call(h, op, arg) == calls' = [calls EXCEPT ![h] = Append(@, <<op, arg>>)]

\* The call op returned (ok) or raised.
Outcome(h, op, ok) ==
    failed_call' = [failed_call EXCEPT ![h] = IF ok THEN @ ELSE op]

\* A host takes the next message off the queue and schedules execute(context)
\* for it on its event loop.
Dispatch(h) ==
    /\ dispatched < NumRuns
    /\ dispatched' = dispatched + 1
    /\ scheduled' = [scheduled EXCEPT ![h] = @ + 1]
    /\ UNCHANGED <<pc, process_id, schema_id, source_files, files, step_results,
                   result_file, check_exc, poll_status, calls, error, returned, blobs,
                   analyzers, provisioned, files_before, results_before, ready_at_start,
                   sources_before, failed_call, open_streams, appVars, cfgVars>>

\* The event loop starts a scheduled coroutine: execute is entered with the
\* message's context (lines 24-34).  The body of execute holds no await, so the
\* loop runs nothing else until execute has returned or raised.
Enter(h) ==
    /\ Free(h)
    /\ scheduled[h] > 0
    /\ scheduled' = [scheduled EXCEPT ![h] = @ - 1]
    /\ LET p == dispatched - scheduled["hostA"] - scheduled["hostB"] + 1 IN
         /\ process_id' = [process_id EXCEPT ![h] = p]
         /\ step_results' = [step_results EXCEPT ![h] = PriorStepResults(p)]
         /\ results_before' = [results_before EXCEPT ![h] = PriorStepResults(p)]
    /\ \E id \in SchemaIds, src \in SourceLists :
         /\ schema_id' = [schema_id EXCEPT ![h] = id]
         /\ source_files' = [source_files EXCEPT ![h] = src]
         /\ sources_before' = [sources_before EXCEPT ![h] = src]
         /\ ready_at_start' = [ready_at_start EXCEPT ![h] = id \in provisioned]
    /\ files' = [files EXCEPT ![h] = PriorFiles]
    /\ files_before' = [files_before EXCEPT ![h] = PriorFiles]
    /\ pc' = [pc EXCEPT ![h] = "check"]
    /\ result_file' = [result_file EXCEPT ![h] = 0]
    /\ check_exc' = [check_exc EXCEPT ![h] = None]
    /\ poll_status' = [poll_status EXCEPT ![h] = None]
    /\ calls' = [calls EXCEPT ![h] = <<>>]
    /\ error' = [error EXCEPT ![h] = None]
    /\ returned' = [returned EXCEPT ![h] = None]
    /\ blobs' = [blobs EXCEPT ![h] = {}]
    /\ failed_call' = [failed_call EXCEPT ![h] = None]
    /\ open_streams' = [open_streams EXCEPT ![h] = {}]
    /\ UNCHANGED <<dispatched, analyzers, provisioned, appVars, cfgVars>>

\* lines 36-39: content_understanding_helper.get_analyzer_detail_by_id(analyzer_id)
GetAnalyzerDetailById(h) ==
    /\ MayCheck(h)
    /\ Call(h, "get_analyzer_detail_by_id", schema_id[h])
    /\ \E exc \in DetailOutcomes(schema_id[h]) :
         /\ check_exc' = [check_exc EXCEPT ![h] = exc]
         /\ Outcome(h, "get_analyzer_detail_by_id", exc = "ok")
         /\ IF AfterExistenceCheck(exc) = "raised"
            THEN Raise(h, "ProfileLookupFailed")
            ELSE Goto(h, AfterExistenceCheck(exc))
    /\ UNCHANGED <<files, step_results, result_file, poll_status, returned, blobs,
                   analyzers, provisioned, open_streams>>
    /\ UNCHANGED ctxVars

\* lines 40-45: Schema.get_schema(..., schema_id=analyzer_id)
GetSchema(h) ==
    /\ pc[h] = "get_schema"
    /\ Call(h, "get_schema", schema_id[h])
    /\ \E ok \in BOOLEAN :
         /\ Outcome(h, "get_schema", ok)
         /\ IF ok THEN Goto(h, "load_schema") ELSE Raise(h, "ProvisioningFailed")
    /\ UNCHANGED <<files, step_results, result_file, check_exc, poll_status, returned, blobs,
                   analyzers, provisioned, open_streams>>
    /\ UNCHANGED ctxVars

\* lines 46-51: load_schema_from_blob(container_name=.../Schemas/{analyzer_id}, ...)
LoadSchemaFromBlob(h) ==
    /\ pc[h] = "load_schema"
    /\ Call(h, "load_schema_from_blob", schema_id[h])
    /\ \E ok \in BOOLEAN :
         /\ Outcome(h, "load_schema_from_blob", ok)
         /\ IF ok THEN Goto(h, "build_schema") ELSE Raise(h, "ProvisioningFailed")
    /\ UNCHANGED <<files, step_results, result_file, check_exc, poll_status, returned, blobs,
                   analyzers, provisioned, open_streams>>
    /\ UNCHANGED ctxVars

\* line 52: cu_schema = build_content_understanding_schema(schema_model)
BuildContentUnderstandingSchema(h) ==
    /\ pc[h] = "build_schema"
    /\ Call(h, "build_content_understanding_schema", schema_id[h])
    /\ \E ok \in BOOLEAN :
         /\ Outcome(h, "build_content_understanding_schema", ok)
         /\ IF AfterBuildSchema(ok) = "raised"
            THEN Raise(h, "ProvisioningFailed")
            ELSE Goto(h, AfterBuildSchema(ok))
    /\ UNCHANGED <<files, step_results, result_file, check_exc, poll_status, returned, blobs,
                   analyzers, provisioned, open_streams>>
    /\ UNCHANGED ctxVars

\* lines 53-55: begin_create_analyzer(analyzer_id=analyzer_id, analyzer_template=cu_schema)
BeginCreateAnalyzer(h) ==
    /\ pc[h] = "create_analyzer"
    /\ Call(h, "begin_create_analyzer", schema_id[h])
    /\ \E ok \in BOOLEAN :
         /\ Outcome(h, "begin_create_analyzer", ok)
         /\ IF ok
            THEN /\ analyzers' = analyzers \cup {schema_id[h]}
                 /\ provisioned' = provisioned \cup {schema_id[h]}
            ELSE UNCHANGED <<analyzers, provisioned>>
         /\ IF AfterCreateAnalyzer(ok) = "raised"
            THEN Raise(h, "ProvisioningFailed")
            ELSE Goto(h, AfterCreateAnalyzer(ok))
    /\ UNCHANGED <<files, step_results, result_file, check_exc, poll_status, returned, blobs,
                   open_streams>>
    /\ UNCHANGED ctxVars

\* lines 59-62: get_source_files()[0].download_stream(...), evaluated as the
\* argument of begin_analyze_stream, before that call is made.
DownloadStream(h) ==
    /\ pc[h] = "download_stream"
    /\ IF source_files[h] = <<>>
       THEN /\ Raise(h, "IndexError")
            /\ UNCHANGED <<calls, failed_call, open_streams>>
       ELSE /\ Call(h, "download_stream", source_files[h][1])
            /\ \E ok \in BOOLEAN :
                 /\ Outcome(h, "download_stream", ok)
                 /\ open_streams' = [open_streams EXCEPT ![h] = StreamsAfterDownload(@, ok)]
                 /\ IF ok THEN Goto(h, "analyze") ELSE Raise(h, "PersistenceFailed")
    /\ UNCHANGED <<files, step_results, result_file, check_exc, poll_status, returned, blobs,
                   analyzers, provisioned>>
    /\ UNCHANGED ctxVars

\* lines 57-63: begin_analyze_stream(analyzer_id=analyzer_id, file_stream=...)
BeginAnalyzeStream(h) ==
    /\ pc[h] = "analyze"
    /\ Call(h, "begin_analyze_stream", schema_id[h])
    /\ \E ok \in (IF schema_id[h] \in analyzers THEN BOOLEAN ELSE {FALSE}) :
         /\ Outcome(h, "begin_analyze_stream", ok)
         /\ open_streams' = [open_streams EXCEPT ![h] = StreamsAfterSubmit(@, ok)]
         /\ IF ok THEN Goto(h, "poll") ELSE Raise(h, "AnalysisFailed")
    /\ UNCHANGED <<files, step_results, result_file, check_exc, poll_status, returned, blobs,
                   analyzers, provisioned>>
    /\ UNCHANGED ctxVars

\* line 65: response = content_understanding_helper.poll_result(response)
PollResult(h) ==
    /\ pc[h] = "poll"
    /\ Call(h, "poll_result", schema_id[h])
    /\ \E outcome \in {"succeeded", "failed"} :
         /\ poll_status' = [poll_status EXCEPT ![h] = outcome]
         /\ Outcome(h, "poll_result", outcome = "succeeded")
         /\ IF AfterPoll(outcome) = "raised"
            THEN Raise(h, "AnalysisFailed")
            ELSE Goto(h, AfterPoll(outcome))
    /\ UNCHANGED <<files, step_results, result_file, check_exc, returned, blobs,
                   analyzers, provisioned, open_streams>>
    /\ UNCHANGED ctxVars

\* line 66: result = AnalyzedResult(**response), which validates the payload
ParseAnalyzedResult(h) ==
    /\ pc[h] = "parse"
    /\ \E ok \in BOOLEAN :
         IF ok THEN Goto(h, "add_file") ELSE Raise(h, "ValidationError")
    /\ UNCHANGED <<files, step_results, result_file, check_exc, poll_status, calls, returned,
                   blobs, analyzers, provisioned, failed_call, open_streams>>
    /\ UNCHANGED ctxVars

\* lines 70-73: result_file = context.data_pipeline.add_file(...)
AddFile(h) ==
    /\ pc[h] = "add_file"
    /\ files' = [files EXCEPT ![h] = add_file(@, OutputFileName, ExtractedContent)]
    /\ result_file' = [result_file EXCEPT ![h] = Len(files[h]) + 1]
    /\ Goto(h, "log")
    /\ UNCHANGED <<step_results, check_exc, poll_status, calls, returned, blobs, analyzers,
                   provisioned, failed_call, open_streams>>
    /\ UNCHANGED ctxVars

\* lines 76-83: result_file.log_entries.append(PipelineLogEntry(...))
AppendLogEntry(h) ==
    /\ pc[h] = "log"
    /\ files' = [files EXCEPT ![h] =
                   AppendLog(@, LogTarget(h), [source |-> HandlerName, message |-> LogMessage])]
    /\ Goto(h, "upload")
    /\ UNCHANGED <<step_results, result_file, check_exc, poll_status, calls, returned, blobs,
                   analyzers, provisioned, failed_call, open_streams>>
    /\ UNCHANGED ctxVars

\* lines 86-90: result_file.upload_json_text(...)
UploadJsonText(h) ==
    /\ pc[h] = "upload"
    /\ Call(h, "upload_json_text", files[h][result_file[h]].name)
    /\ \E ok \in BOOLEAN :
         /\ Outcome(h, "upload_json_text", ok)
         /\ IF ok
            THEN /\ blobs' = [blobs EXCEPT ![h] = @ \cup {files[h][result_file[h]].name}]
                 /\ Goto(h, "return")
            ELSE /\ UNCHANGED blobs
                 /\ Raise(h, "PersistenceFailed")
    /\ UNCHANGED <<files, step_results, result_file, check_exc, poll_status, returned, analyzers,
                   provisioned, open_streams>>
    /\ UNCHANGED ctxVars

\* lines 92-99: return StepResult(...); the coroutine ends.
Return(h) ==
    /\ pc[h] = "return"
    /\ returned' = [returned EXCEPT ![h] =
                      StepResult(process_id[h], files[h][result_file[h]].name)]
    /\ pc' = [pc EXCEPT ![h] = "returned"]
    /\ UNCHANGED <<files, step_results, result_file, check_exc, poll_status, calls, error, blobs,
                   analyzers, provisioned, failed_call, open_streams>>
    /\ UNCHANGED ctxVars

\* The driver appends the returned StepResult to the context's step_results.
RecordStepResult(h) ==
    /\ pc[h] = "returned"
    /\ step_results' = [step_results EXCEPT ![h] = Append(@, returned[h])]
    /\ pc' = [pc EXCEPT ![h] = "recorded"]
    /\ UNCHANGED <<files, result_file, check_exc, poll_status, calls, error, returned, blobs,
                   analyzers, provisioned, failed_call, open_streams>>
    /\ UNCHANGED ctxVars

\* The driver passes the context to the next configured step (ProcessSteps[2]).
StartNextStep(h) ==
    /\ MayStartNext(h)
    /\ pc' = [pc EXCEPT ![h] = "next_step"]
    /\ UNCHANGED <<files, step_results, result_file, check_exc, poll_status, calls, error,
                   returned, blobs, analyzers, provisioned, failed_call, open_streams>>
    /\ UNCHANGED ctxVars

Next ==
    \E h \in Hosts :
        \/ Dispatch(h)
        \/ Enter(h)
        \/ GetAnalyzerDetailById(h)
        \/ GetSchema(h)
        \/ LoadSchemaFromBlob(h)
        \/ BuildContentUnderstandingSchema(h)
        \/ BeginCreateAnalyzer(h)
        \/ DownloadStream(h)
        \/ BeginAnalyzeStream(h)
        \/ PollResult(h)
        \/ ParseAnalyzedResult(h)
        \/ AddFile(h)
        \/ AppendLogEntry(h)
        \/ UploadJsonText(h)
        \/ Return(h)
        \/ RecordStepResult(h)
        \/ StartNextStep(h)

Spec == Init /\ [][Next]_vars

\* ---------------------------------------------------------- Application.run
\* The most steps a configuration lists.
MaxSteps == 3

\* The step names a configuration may list.
StepNames == {"extract", "transform"}

\* The configured lists of process steps: every list of at most MaxSteps names.
StepLists == UNION {[1..n -> StepNames] : n \in 0..MaxSteps}

\* The shared application context handed to every handler.
AppContext == "appContext"

\* Mutant: the test_mode argument is ignored.
AfterSetupIgnoresTestMode(test_mode) == "serving"

\* Where run continues once every configured handler is set up: in test mode it
\* returns, otherwise it keeps the handlers running.
AfterSetup(test_mode) == IF test_mode THEN "done" ELSE "serving"

\* app.run(test_mode) is called on an application whose configuration lists
\* app_steps; no run of the pipeline is under way.
InitApp ==
    /\ InitPipeline
    /\ InitConfig
    /\ app_pc = "loop"
    /\ app_steps \in StepLists
    /\ app_index = 1
    /\ app_loaded = <<>>
    /\ app_handlers = <<>>
    /\ app_test_mode \in BOOLEAN

pipelineVars ==
    <<pc, dispatched, scheduled, process_id, schema_id, source_files, files,
      step_results, result_file, check_exc, poll_status, calls, error, returned, blobs,
      analyzers, provisioned, files_before, results_before, ready_at_start,
      sources_before, failed_call, open_streams>>

\* handler_type_loader.load(step_name) for the step at app_index.
AppLoadHandler ==
    /\ app_pc = "loop"
    /\ app_index <= Len(app_steps)
    /\ app_loaded' = Append(app_loaded, app_steps[app_index])
    /\ app_pc' = "instantiate"
    /\ UNCHANGED <<app_steps, app_index, app_handlers, app_test_mode, pipelineVars, cfgVars>>

\* The loaded type is instantiated with the application context and the step name.
AppInstantiate ==
    /\ app_pc = "instantiate"
    /\ app_handlers' = Append(app_handlers, <<AppContext, app_steps[app_index]>>)
    /\ app_index' = app_index + 1
    /\ app_pc' = "loop"
    /\ UNCHANGED <<app_steps, app_loaded, app_test_mode, pipelineVars, cfgVars>>

\* Every configured step is set up.
AppEndSetup ==
    /\ app_pc = "loop"
    /\ app_index > Len(app_steps)
    /\ app_pc' = AfterSetup(app_test_mode)
    /\ UNCHANGED <<app_steps, app_index, app_loaded, app_handlers, app_test_mode,
                   pipelineVars, cfgVars>>

\* Outside test mode run keeps the handlers running and never returns.
AppServe ==
    /\ app_pc \in {"serving", "sleeping"}
    /\ app_pc' = IF app_pc = "serving" THEN "sleeping" ELSE "serving"
    /\ UNCHANGED <<app_steps, app_index, app_loaded, app_handlers, app_test_mode,
                   pipelineVars, cfgVars>>

NextApp == AppLoadHandler \/ AppInstantiate \/ AppEndSetup \/ AppServe

\* run is one coroutine the caller awaits: its next step is always taken.
SpecApp == InitApp /\ [][NextApp]_vars /\ WF_vars(NextApp)

\* ----------------------------------------------------------- get_app_config
\* The most calls of get_app_config.
MaxCalls == 4

\* Values of app_logging_level in the environment; getattr(logging, level)
\* exists for the first only.
LoggingLevels == {"DEBUG", "VERBOSE"}
ValidLevels == {"DEBUG"}

\* Mutant: the cached value is not tested.
AfterTestAlwaysConstructs(config) == "construct"

\* line 39: if app_config is None
AfterTest(config) == IF config = NoConfig THEN "construct" ELSE "return"

\* A call of t ends by raising.
CfgRaise(t) ==
    /\ cfg_pc' = [cfg_pc EXCEPT ![t] = "idle"]
    /\ cfg_failed' = cfg_failed + 1

\* line 37: a thread calls get_app_config().
CallGetAppConfig(t) ==
    /\ cfg_pc[t] = "idle"
    /\ cfg_calls < MaxCalls
    /\ cfg_calls' = cfg_calls + 1
    /\ cfg_pc' = [cfg_pc EXCEPT ![t] = "test"]
    /\ cfg_overlap' = (cfg_overlap \/ \E u \in Callers \ {t} : cfg_pc[u] # "idle")
    /\ UNCHANGED <<app_config, cfg_instances, cfg_logging, cfg_failed, cfg_returned>>
    /\ UNCHANGED <<pipelineVars, appVars>>

\* line 39: if app_config is None
TestAppConfig(t) ==
    /\ cfg_pc[t] = "test"
    /\ cfg_pc' = [cfg_pc EXCEPT ![t] = AfterTest(app_config)]
    /\ UNCHANGED <<app_config, cfg_calls, cfg_instances, cfg_logging, cfg_failed,
                   cfg_returned, cfg_overlap>>
    /\ UNCHANGED <<pipelineVars, appVars>>

\* line 40: app_config = AppConfiguration(); the constructor reads the
\* environment and raises when a required setting is missing or ill-typed, and
\* then nothing is assigned.
ConstructAppConfiguration(t) ==
    /\ cfg_pc[t] = "construct"
    /\ \/ \E enable \in BOOLEAN, level \in LoggingLevels :
            /\ cfg_instances' = Append(cfg_instances,
                                        [app_logging_enable |-> enable,
                                         app_logging_level |-> level])
            /\ app_config' = Len(cfg_instances) + 1
            /\ cfg_pc' = [cfg_pc EXCEPT ![t] = "logging"]
            /\ UNCHANGED cfg_failed
       \/ /\ CfgRaise(t)
          /\ UNCHANGED <<app_config, cfg_instances>>
    /\ UNCHANGED <<cfg_calls, cfg_logging, cfg_returned, cfg_overlap>>
    /\ UNCHANGED <<pipelineVars, appVars>>

\* lines 41-45: logging is configured from the global app_config; getattr raises
\* AttributeError for a level the logging module does not define.
ConfigureLogging(t) ==
    /\ cfg_pc[t] = "logging"
    /\ LET c == cfg_instances[app_config] IN
         IF c.app_logging_enable /\ c.app_logging_level \notin ValidLevels
         THEN /\ CfgRaise(t)
              /\ UNCHANGED cfg_logging
         ELSE /\ cfg_logging' = cfg_logging + 1
              /\ cfg_pc' = [cfg_pc EXCEPT ![t] = "return"]
              /\ UNCHANGED cfg_failed
    /\ UNCHANGED <<app_config, cfg_calls, cfg_instances, cfg_returned, cfg_overlap>>
    /\ UNCHANGED <<pipelineVars, appVars>>

\* line 46: return app_config
ReturnAppConfig(t) ==
    /\ cfg_pc[t] = "return"
    /\ cfg_returned' = cfg_returned \cup {app_config}
    /\ cfg_pc' = [cfg_pc EXCEPT ![t] = "idle"]
    /\ UNCHANGED <<app_config, cfg_calls, cfg_instances, cfg_logging, cfg_failed,
                   cfg_overlap>>
    /\ UNCHANGED <<pipelineVars, appVars>>

NextConfig ==
    \E t \in Callers :
        \/ CallGetAppConfig(t)
        \/ TestAppConfig(t)
        \/ ConstructAppConfiguration(t)
        \/ ConfigureLogging(t)
        \/ ReturnAppConfig(t)

SpecConfig == Init /\ [][NextConfig]_vars

\* ------------------------------------------------------------------- claims
Started(h) == pc[h] # "idle"
Called(h, op) == op \in Ops(calls[h])
ProvisioningOps ==
    {"get_schema", "load_schema_from_blob", "build_content_understanding_schema",
     "begin_create_analyzer"}
ProvisioningPcs == {"get_schema", "load_schema", "build_schema", "create_analyzer"}
Compatible(s, t) == IsPrefix(s, t) \/ IsPrefix(t, s)

\* C1: an existence check that fails with an error other than not-found never
\* enters the provisioning branch (no catalog lookup, no schema load, no
\* create-analyzer call) and the error leaves execute.
C1_OnlyNotFoundProvisions ==
    \A h \in Hosts :
        check_exc[h] \in {"HTTPError500", "ConnectionError"} =>
            /\ pc[h] = "raised"
            /\ error[h] = "ProfileLookupFailed"
            /\ Ops(calls[h]) \cap ProvisioningOps = {}

\* C2: with an empty source file list execute fails before any network call:
\* no collaborator is called and no StepResult is returned.
C2_EmptySourcesNoNetworkCall ==
    \A h \in Hosts :
        (Started(h) /\ source_files[h] = <<>>) =>
            /\ calls[h] = <<>>
            /\ pc[h] # "returned"

\* C3: no lock surrounds check-then-create: a run that has reached the existence
\* check, or the create-analyzer call, can always make it, whatever another run
\* on the same schema_id is doing.
C3_NoLockAroundCheckThenCreate ==
    \A h \in Hosts :
        /\ pc[h] = "check" => ENABLED GetAnalyzerDetailById(h)
        /\ pc[h] = "create_analyzer" => ENABLED BeginCreateAnalyzer(h)

\* C3 witness: two runs on one schema_id both observed not-found and both
\* invoked create-analyzer.
C3_BothProvision ==
    \E g, h \in Hosts :
        /\ g # h
        /\ schema_id[g] = schema_id[h]
        /\ check_exc[g] = "HTTPError404" /\ check_exc[h] = "HTTPError404"
        /\ Called(g, "begin_create_analyzer") /\ Called(h, "begin_create_analyzer")

ScenarioACalls(h) ==
    << <<"get_analyzer_detail_by_id", schema_id[h]>>,
       <<"get_schema", schema_id[h]>>,
       <<"load_schema_from_blob", schema_id[h]>>,
       <<"build_content_understanding_schema", schema_id[h]>>,
       <<"begin_create_analyzer", schema_id[h]>> >>
    \o (IF source_files[h] = <<>> THEN <<>>
        ELSE << <<"download_stream", source_files[h][1]>>,
                <<"begin_analyze_stream", schema_id[h]>> >>)

\* C5: after a not-found existence check, the calls of one execution are, in
\* order: catalog lookup, schema load, template build, one create-analyzer call
\* keyed by the same schema_id, and only then the submission.
C5_ScenarioAOrder ==
    \A h \in Hosts :
        check_exc[h] = "HTTPError404" =>
            /\ Compatible(calls[h], ScenarioACalls(h))
            /\ Called(h, "begin_analyze_stream") =>
                 /\ IsPrefix(ScenarioACalls(h), calls[h])
                 /\ CountOp(calls[h], "begin_create_analyzer") = 1

C5_ScenarioASubmitted ==
    \E h \in Hosts :
        check_exc[h] = "HTTPError404" /\ Called(h, "begin_analyze_stream")

\* The calls of Scenario B up to the submission, in order.
ScenarioBCalls(h) ==
    << <<"get_analyzer_detail_by_id", schema_id[h]>> >>
    \o (IF source_files[h] = <<>> THEN <<>>
        ELSE << <<"download_stream", source_files[h][1]>>,
                <<"begin_analyze_stream", schema_id[h]>> >>)

\* C6: after an existence check that succeeds, the execution makes no catalog
\* lookup, no schema load and no create-analyzer call; its next calls are the
\* stream of the first source file and the submission.
C6_ScenarioBDirect ==
    \A h \in Hosts :
        check_exc[h] = "ok" =>
            /\ Ops(calls[h]) \cap ProvisioningOps = {}
            /\ Compatible(calls[h], ScenarioBCalls(h))

C6_ScenarioBSubmitted ==
    \E h \in Hosts :
        /\ check_exc[h] = "ok"
        /\ Len(calls[h]) > Len(ScenarioBCalls(h))
        /\ calls[h][Len(ScenarioBCalls(h))] = <<"begin_analyze_stream", schema_id[h]>>

\* C7: when polling ends in a terminal failure, execute fails with
\* AnalysisFailed, the run's files are as before the call, nothing is uploaded
\* and no StepResult is returned.
C7_PollFailureNoArtifact ==
    \A h \in Hosts :
        poll_status[h] = "failed" =>
            /\ pc[h] = "raised"
            /\ error[h] = "AnalysisFailed"
            /\ files[h] = files_before[h]
            /\ blobs[h] = {}
            /\ ~Called(h, "upload_json_text")
            /\ returned[h] = None

C7_PollFailed ==
    \E h \in Hosts : poll_status[h] = "failed" /\ pc[h] = "raised"

\* C8: begin_analyze_stream is invoked only for a profile that is ready, and on
\* the not-found branch only after provisioning has completed: never while the
\* run is still provisioning.
C8_SubmitOnlyWhenReady ==
    \A h \in Hosts :
        /\ (pc[h] = "analyze" \/ Called(h, "begin_analyze_stream")) =>
               schema_id[h] \in analyzers
        /\ pc[h] \in ProvisioningPcs => ~Called(h, "begin_analyze_stream")
        /\ (check_exc[h] \in HTTPErrors /\ pc[h] = "analyze") =>
               calls[h][Len(calls[h]) - 1] = <<"begin_create_analyzer", schema_id[h]>>

C8_SubmittedAfterProvisioning ==
    \E h \in Hosts :
        /\ check_exc[h] = "HTTPError404"
        /\ pc[h] = "poll"
        /\ calls[h][Len(calls[h])] = <<"begin_analyze_stream", schema_id[h]>>

\* The positions at which execute waits on a long-latency call.
SuspensionPoints ==
    {"check", "get_schema", "load_schema", "create_analyzer", "download_stream",
     "analyze", "poll", "upload"}

\* C9: while one run's execute is waiting on a long-latency call, a run hosted
\* alongside it (scheduled on the same loop) can take its steps.
C9_WaitingDoesNotBlockOthers ==
    \A h \in Hosts :
        (pc[h] \in SuspensionPoints /\ scheduled[h] > 0) => ENABLED Enter(h)

\* C10: wherever execute fails, the artifacts that were in files before the call
\* and the step results recorded before the call are still there, unchanged.
C10_FailureKeepsPriorState ==
    \A h \in Hosts :
        pc[h] = "raised" =>
            /\ IsPrefix(files_before[h], files[h])
            /\ IsPrefix(results_before[h], step_results[h])

C10_FailedAfterAddFile ==
    \E h \in Hosts :
        /\ pc[h] = "raised"
        /\ files_before[h] # <<>>
        /\ results_before[h] # <<>>
        /\ Len(files[h]) > Len(files_before[h])

\* C11: one execution adds at most one artifact to the run's files, the
\* artifacts that were there before the call (their contents and log_entries)
\* are unchanged, and so are the run's source_files.
C11_AtMostOneArtifactOthersUntouched ==
    \A h \in Hosts :
        /\ Len(files[h]) <= Len(files_before[h]) + 1
        /\ IsPrefix(files_before[h], files[h])
        /\ source_files[h] = sources_before[h]

\* C11 witness: an execution returned having added its artifact, with its log
\* entry, next to an artifact of an earlier step.
C11_ReturnedWithOwnArtifact ==
    \E h \in Hosts :
        /\ pc[h] = "returned"
        /\ files_before[h] # <<>>
        /\ source_files[h] # <<>>
        /\ Len(files[h]) = Len(files_before[h]) + 1
        /\ files[h][Len(files[h])].log_entries # <<>>

\* C12: a returned StepResult carries the context's process_id and the handler's
\* step name, and every StepResult recorded for the run carries the context's
\* process_id.
C12_ResultCarriesProcessId ==
    \A h \in Hosts :
        /\ pc[h] \in {"returned", "recorded", "next_step"} =>
              /\ returned[h].process_id = process_id[h]
              /\ returned[h].step_name = HandlerName
        /\ \A i \in DOMAIN step_results[h] :
              step_results[h][i].process_id = process_id[h]

\* C12 witness: the driver recorded the extraction step's result after the
\* result of an earlier step.
C12_ExtractResultRecorded ==
    \E h \in Hosts :
        /\ pc[h] = "recorded"
        /\ Len(step_results[h]) = Len(results_before[h]) + 1
        /\ results_before[h] # <<>>
        /\ step_results[h][Len(step_results[h])].step_name = HandlerName

\* The artifact this execution created.
CreatedArtifact(h) == files[h][result_file[h]]

\* The log_entries of the artifacts of a run never get shorter.
LogEntriesNeverShrink ==
    \A h \in Hosts :
        process_id'[h] = process_id[h] =>
            \A i \in DOMAIN files[h] :
                /\ i \in DOMAIN files'[h]
                /\ Len(files'[h][i].log_entries) >= Len(files[h][i].log_entries)

\* After add_file the created artifact has no entry yet; from the upload call on
\* it has exactly one, whose source is this step's name.
OneLogEntryBeforeUpload ==
    \A h \in Hosts :
        /\ pc[h] = "log" =>
              /\ CreatedArtifact(h).log_entries = <<>>
              /\ ~Called(h, "upload_json_text")
        /\ (pc[h] \in {"upload", "return", "returned", "recorded", "next_step"}
               \/ Called(h, "upload_json_text")) =>
              /\ Len(CreatedArtifact(h).log_entries) = 1
              /\ CreatedArtifact(h).log_entries[1].source = HandlerName

\* C13: the artifact a successful execution created has exactly one log entry,
\* with this step's name as source, appended after add_file and before the
\* upload; no artifact's log_entries ever gets shorter.
C13_OneLogEntryAppendOnly ==
    []OneLogEntryBeforeUpload /\ [][LogEntriesNeverShrink]_vars

\* C13 witness: a successful execution whose artifact carries the one entry.
C13_ReturnedWithOneEntry ==
    \E h \in Hosts :
        /\ pc[h] = "returned"
        /\ Called(h, "upload_json_text")
        /\ Len(CreatedArtifact(h).log_entries) = 1

\* The positions inside ExtractHandler.execute.
ExecutePcs ==
    {"check", "get_schema", "load_schema", "build_schema", "create_analyzer",
     "download_stream", "analyze", "poll", "parse", "add_file", "log", "upload", "return"}

\* The k-th configured step's execute is under way on h.
StepExecuting(h, k) ==
    IF k = 1 THEN pc[h] \in ExecutePcs ELSE k = 2 /\ pc[h] = "next_step"

\* The k-th configured step has run: a later step of the run is executing.
HasRun(h, k) == \E j \in (k + 1)..Len(ProcessSteps) : StepExecuting(h, j)

\* C14: the configured steps execute in configured order: while a step executes,
\* the StepResult of its predecessor is in step_results, and
\* get_previous_step_result(name) is absent exactly for the steps that have not
\* yet run in this run.
C14_StepsInConfiguredOrder ==
    \A h \in Hosts : \A k \in DOMAIN ProcessSteps :
        StepExecuting(h, k) =>
            /\ k > 1 =>
                  get_previous_step_result(step_results[h], ProcessSteps[k - 1]) # {}
            /\ \A n \in DOMAIN ProcessSteps :
                  get_previous_step_result(step_results[h], ProcessSteps[n]) = {}
                      <=> ~HasRun(h, n)

\* C14 witness: the step after extraction has started, with the extraction
\* step's result recorded last.
C14_NextStepStarted ==
    \E h \in Hosts :
        /\ pc[h] = "next_step"
        /\ step_results[h][Len(step_results[h])].step_name = ProcessSteps[1]

\* Every configured step's handler type was loaded and instantiated with the
\* application context and the step name, in configured order.
AppSetUp ==
    /\ app_loaded = app_steps
    /\ Len(app_handlers) = Len(app_steps)
    /\ \A i \in DOMAIN app_steps : app_handlers[i] = <<AppContext, app_steps[i]>>

\* C15: in test mode Application.run terminates, whatever list of steps is
\* configured: it returns, having loaded and instantiated the handler of each
\* configured step.
C15_TestModeRunReturns ==
    app_test_mode ~> (app_pc = "done" /\ AppSetUp)

\* C15 witness: run returned in test mode with the handlers of two steps set up.
C15_ReturnedWithTwoHandlers ==
    /\ app_test_mode
    /\ app_pc = "done"
    /\ app_steps = <<"extract", "transform">>
    /\ app_handlers = <<<<AppContext, "extract">>, <<AppContext, "transform">>>>

\* C16: when a provisioning call fails, execute fails with a provisioning
\* failure and stops: nothing is downloaded or submitted for analysis, no
\* artifact is added and nothing is uploaded.
C16_ProvisioningFailureStops ==
    \A h \in Hosts :
        failed_call[h] \in ProvisioningOps =>
            /\ pc[h] = "raised"
            /\ error[h] = "ProvisioningFailed"
            /\ calls[h][Len(calls[h])][1] = failed_call[h]
            /\ ~Called(h, "begin_analyze_stream")
            /\ ~Called(h, "upload_json_text")
            /\ files[h] = files_before[h]
            /\ blobs[h] = {}

\* C16 witness: the create-analyzer call, the last provisioning call, failed.
C16_CreateAnalyzerFailed ==
    \E h \in Hosts :
        /\ failed_call[h] = "begin_create_analyzer"
        /\ pc[h] = "raised"

\* The step call has ended: execute returned or raised.
CallEnded(h) == Finished(h) \/ pc[h] \in {"recorded", "next_step"}

OnceOps ==
    {"get_analyzer_detail_by_id", "get_schema", "begin_create_analyzer",
     "begin_analyze_stream", "upload_json_text"}

\* The call of h that failed: an existence check answered not-found is the
\* answer "no such profile", not a failure.
FailedOp(h) ==
    IF check_exc[h] \in {"HTTPError500", "ConnectionError"}
    THEN "get_analyzer_detail_by_id"
    ELSE IF failed_call[h] = "get_analyzer_detail_by_id" THEN None
    ELSE failed_call[h]

\* C18: no internal retry: each of the existence check, the catalog lookup, the
\* create-analyzer call, the submission and the upload is invoked at most once
\* in an execution, and the first failure of any of them ends the execution.
C18_NoRetryFirstFailureEnds ==
    \A h \in Hosts :
        /\ \A op \in OnceOps : CountOp(calls[h], op) <= 1
        /\ FailedOp(h) \in OnceOps => pc[h] = "raised"

\* C19: a StepResult is returned only after the job succeeded and the upload
\* completed, and its result mapping is {status: success, file_name: <name>},
\* <name> being the name of the one ExtractedContent artifact this execution
\* added.
C19_ReturnsStatusSuccess ==
    \A h \in Hosts :
        pc[h] = "returned" =>
            /\ poll_status[h] = "succeeded"
            /\ OutputFileName \in blobs[h]
            /\ Len(files[h]) = Len(files_before[h]) + 1
            /\ CreatedArtifact(h).name = OutputFileName
            /\ CreatedArtifact(h).artifact_type = ExtractedContent
            /\ returned[h].result = [status |-> "success", file_name |-> OutputFileName]

\* C20: a failed upload leaves files with exactly one artifact more than before
\* the call, the output artifact with its one log entry, which is not in the
\* artifact store, and no StepResult is returned.
C20_UploadFailureLeavesArtifact ==
    \A h \in Hosts :
        failed_call[h] = "upload_json_text" =>
            /\ pc[h] = "raised"
            /\ returned[h] = None
            /\ Len(files[h]) = Len(files_before[h]) + 1
            /\ IsPrefix(files_before[h], files[h])
            /\ files[h][Len(files[h])] =
                   [name |-> OutputFileName, artifact_type |-> ExtractedContent,
                    log_entries |-> <<[source |-> HandlerName, message |-> LogMessage]>>]
            /\ OutputFileName \notin blobs[h]

\* C20 witness: the upload failed in a run that already had an artifact.
C20_UploadFailed ==
    \E h \in Hosts :
        /\ failed_call[h] = "upload_json_text"
        /\ pc[h] = "raised"
        /\ files_before[h] # <<>>

\* C21: get_app_config is a lazily initialised singleton: over any sequence of
\* calls (no two under way at once) AppConfiguration is constructed at most once
\* and logging is configured at most once, every call that returns returns the
\* one cached instance, and the cached value is unset exactly while no
\* construction has succeeded, so a call after a failed construction constructs
\* again.
C21_LazySingleton ==
    ~cfg_overlap =>
        /\ Len(cfg_instances) <= 1
        /\ cfg_logging <= 1
        /\ cfg_returned \subseteq ({app_config} \ {NoConfig})
        /\ app_config = NoConfig <=> cfg_instances = <<>>
        /\ \A t \in Callers : cfg_pc[t] = "construct" => app_config = NoConfig

\* C21 witness: a construction raised, a later call constructed the instance
\* and configured logging, and two calls returned that instance, one after the
\* other.
C21_RetriedThenCached ==
    /\ ~cfg_overlap
    /\ cfg_failed >= 1
    /\ Len(cfg_instances) = 1
    /\ cfg_instances[1].app_logging_level \in ValidLevels
    /\ cfg_logging = 1
    /\ cfg_returned = {1}
    /\ cfg_calls = 3
    /\ \A t \in Callers : cfg_pc[t] = "idle"

====
